---------------------------- MODULE Spec2Model ----------------------------
(***************************************************************************)
(* A model of src/sys/windows.rs of socket2: the Windows translation layer *)
(* between the portable socket operations and Winsock.                     *)
(*                                                                         *)
(* Integers wider than TLC's 32-bit integers (u64 seconds, u32             *)
(* milliseconds, usize buffer lengths) are kept exactly, as little-endian  *)
(* sequences of base-1000 digits without leading zero digits (so zero is   *)
(* the empty sequence).  Option<T> is a sequence of length 0 (None) or 1   *)
(* (Some), io::Result<T> a record with the field ok.                       *)
(***************************************************************************)
EXTENDS Integers, Sequences, FiniteSets, TLC

VARIABLES
    host,   \* the machine the layer runs on: its byte order
    sock,   \* the kernel socket object behind the descriptor Socket.socket
    call,   \* the last call made into the layer: its name, arguments and result
    proc    \* the process: the Once of init(), its threads, its descriptors

vars == <<host, sock, call, proc>>

---------------------------------------------------------------------------
(* Option and io::Result *)

None == <<>>
Some(v) == <<v>>
is_some(o) == o # <<>>

Ok(v) == [ok |-> TRUE, val |-> v]
Err(e) == [ok |-> FALSE, err |-> e]

unwrap_or(o, dflt) == IF o = None THEN dflt ELSE o[1]

---------------------------------------------------------------------------
(* Wide unsigned integers: little-endian base-1000 digit sequences *)

Base == 1000

RECURSIVE Norm(_)
Norm(s) ==
    IF s = <<>> THEN <<>>
    ELSE IF s[Len(s)] = 0 THEN Norm(SubSeq(s, 1, Len(s) - 1))
    ELSE s

RECURSIVE LtAt(_, _, _)
LtAt(a, b, i) ==
    IF i = 0 THEN FALSE
    ELSE IF a[i] # b[i] THEN a[i] < b[i]
    ELSE LtAt(a, b, i - 1)

\* a < b
Lt(a, b) == IF Len(a) # Len(b) THEN Len(a) < Len(b) ELSE LtAt(a, b, Len(a))

RECURSIVE MulAdd(_, _, _)
\* a * k + c, for 0 <= k <= Base and small c
MulAdd(a, k, c) ==
    IF a = <<>>
    THEN IF c = 0 THEN <<>> ELSE <<c % Base>> \o MulAdd(<<>>, k, c \div Base)
    ELSE LET d == Head(a) * k + c
         IN  <<d % Base>> \o MulAdd(Tail(a), k, d \div Base)

\* a natural number that fits TLC's integers, as a wide integer
Wide(n) ==
    Norm(<<n % Base, (n \div Base) % Base, (n \div (Base * Base)) % Base,
           n \div (Base * Base * Base)>>)

RECURSIVE Narrow(_)
\* a wide integer below 2^31 as a TLC integer
Narrow(a) == IF a = <<>> THEN 0 ELSE Head(a) + Base * Narrow(Tail(a))

\* u64::MAX = 18_446_744_073_709_551_615
U64_MAX == <<615, 551, 709, 73, 744, 446, 18>>
\* <DWORD>::max_value() = u32::MAX = 4_294_967_295
DWORD_MAX == <<295, 967, 294, 4>>
\* winbase::INFINITE = 0xFFFFFFFF
INFINITE == DWORD_MAX

\* u64::checked_mul and u64::checked_add: None on overflow
checked_mul(a, k) ==
    LET r == Norm(MulAdd(a, k, 0)) IN IF Lt(U64_MAX, r) THEN None ELSE Some(r)
checked_add(a, k) ==
    LET r == MulAdd(a, 1, k) IN IF Lt(U64_MAX, r) THEN None ELSE Some(r)

\* a / 1000 and a % 1000
DivBase(a) == IF a = <<>> THEN <<>> ELSE Tail(a)
ModBase(a) == IF a = <<>> THEN 0 ELSE Head(a)

---------------------------------------------------------------------------
(* Duration: (seconds: u64, nanoseconds: u32 below 10^9) *)

Duration(secs, nanos) == [secs |-> secs, nanos |-> nanos]

NANOS_PER_MILLI == 1000000

\* the `ms` of dur2ms: the chain of checked_mul, and_then(checked_add) twice,
\* map(saturate) and unwrap_or(INFINITE); roundUp is whether the second
\* checked_add, of the rounding millisecond, is there
dur_ms(d, roundUp) ==
    LET mul  == checked_mul(d.secs, 1000)
        add1 == IF mul = None THEN None
                ELSE checked_add(mul[1], d.nanos \div NANOS_PER_MILLI)
        add2 == IF add1 = None THEN None
                ELSE IF ~roundUp THEN add1
                ELSE checked_add(add1[1],
                         IF d.nanos % NANOS_PER_MILLI > 0 THEN 1 ELSE 0)
        sat  == IF add2 = None THEN None
                ELSE Some(IF Lt(DWORD_MAX, add2[1]) THEN INFINITE ELSE add2[1])
    IN  unwrap_or(sat, INFINITE)

dur2msNoZeroCheck(dur) ==
    IF dur = None THEN Ok(<<>>) ELSE Ok(dur_ms(dur[1], TRUE))

dur2msRoundDown(dur) ==
    IF dur = None THEN Ok(<<>>)
    ELSE LET ms == dur_ms(dur[1], FALSE)
         IN  IF ms = <<>> THEN Err("InvalidInput") ELSE Ok(ms)

\* fn dur2ms(dur: Option<Duration>) -> io::Result<DWORD>
\* (`ms as DWORD` is of a value that fits, so changes nothing)
dur2ms(dur) ==
    IF dur = None THEN Ok(<<>>)
    ELSE LET ms == dur_ms(dur[1], TRUE)
         IN  IF ms = <<>> THEN Err("InvalidInput") ELSE Ok(ms)

\* fn ms2dur(raw: DWORD) -> Option<Duration>
ms2dur(raw) ==
    IF raw = <<>> THEN None
    ELSE LET secs == DivBase(raw)
             nsec == ModBase(raw) * 1000000
         IN  Some(Duration(secs, nsec))

(* Durations the results are compared with *)

ZeroDuration == Duration(<<>>, 0)

\* the largest timeout the OS takes: u32::MAX milliseconds
MaxTimeout == Duration(Wide(4294967), 295000000)

DurLt(a, b) == Lt(a.secs, b.secs) \/ (a.secs = b.secs /\ a.nanos < b.nanos)

\* d rounded up to the next whole millisecond, then capped at MaxTimeout
RoundUpMsSat(d) ==
    LET up == ((d.nanos + NANOS_PER_MILLI - 1) \div NANOS_PER_MILLI) * NANOS_PER_MILLI
        r  == IF up = 1000 * NANOS_PER_MILLI
              THEN Duration(MulAdd(d.secs, 1, 1), 0)
              ELSE Duration(d.secs, up)
    IN  IF DurLt(MaxTimeout, r) THEN MaxTimeout ELSE r

---------------------------------------------------------------------------
(* The durations and raw values the operations are applied to *)

\* seconds: around 0, the u16 width, u32::MAX ms, u64::MAX / 1000 and u64::MAX
SecsInputs ==
    { <<>>, Wide(1), Wide(65535), Wide(65536),
      Wide(4294967), Wide(4294968),
      <<551, 709, 73, 744, 446, 18>>, <<552, 709, 73, 744, 446, 18>>,
      U64_MAX }

NanosInputs ==
    { 0, 1, 999999, 1000000, 1000001, 295000000, 295000001, 999000001, 999999999 }

Durations == { Duration(s, n) : s \in SecsInputs, n \in NanosInputs }

OptDurations == { None } \cup { Some(d) : d \in Durations }

\* raw DWORD values an option read may report
RawInputs ==
    { <<>>, Wide(1), Wide(999), Wide(1000), Wide(1001), <<294, 967, 294, 4>>, DWORD_MAX }


---------------------------------------------------------------------------
(* The socket object the OS keeps, as far as the layer's calls read and    *)
(* write it.  opts is the option table behind getsockopt/setsockopt, keyed *)
(* by <<level, name>>; ka is the structure behind SIO_KEEPALIVE_VALS;      *)
(* mcast holds the multicast memberships, each the level it was added at   *)
(* and the request structure it was added with;                            *)
(* rxq holds the sizes of the datagrams (the runs of stream bytes) waiting *)
(* to be received.                                                         *)

NoCall == [op |-> "start"]

TimeoutKeys == { <<"SOL_SOCKET", "SO_RCVTIMEO">>, <<"SOL_SOCKET", "SO_SNDTIMEO">> }

LingerKey == <<"SOL_SOCKET", "SO_LINGER">>

BoolKeys ==
    { <<"IPPROTO_TCP", "TCP_NODELAY">>,
      <<"SOL_SOCKET", "SO_BROADCAST">>,
      <<"SOL_SOCKET", "SO_REUSEADDR">>,
      <<"SOL_SOCKET", "SO_OOBINLINE">>,
      <<"IPPROTO_IPV6", "IPV6_V6ONLY">>,
      <<"IPPROTO_IP", "IP_MULTICAST_LOOP">>,
      <<"IPPROTO_IPV6", "IPV6_MULTICAST_LOOP">> }

OptKeys == TimeoutKeys \cup {LingerKey} \cup BoolKeys

\* struct tcp_keepalive { onoff, keepalivetime, keepaliveinterval }
tcp_keepalive(onoff, keepalivetime, keepaliveinterval) ==
    [onoff |-> onoff, keepalivetime |-> keepalivetime,
     keepaliveinterval |-> keepaliveinterval]

\* sock::linger { l_onoff, l_linger }
linger_t(l_onoff, l_linger) == [l_onoff |-> l_onoff, l_linger |-> l_linger]

\* a socket as WSASocketW returns it: nothing set, nothing queued
NewSocket(ty) ==
    [ ty     |-> ty,
      opts   |-> [k \in OptKeys |->
                    IF k \in TimeoutKeys THEN <<>>
                    ELSE IF k = LingerKey THEN linger_t(0, 0)
                    ELSE 0],
      ka     |-> tcp_keepalive(0, <<>>, <<>>),
      mcast  |-> {},
      rdShut |-> FALSE,
      wrShut |-> FALSE,
      rxq    |-> <<>> ]

---------------------------------------------------------------------------
(* The process: the Once that init() keeps, the threads that are inside    *)
(* socket(), and the descriptor table, which gives for every descriptor    *)
(* (SOCKET) the kernel socket object it refers to, 0 for a descriptor that *)
(* is not open                                                             *)

MaxThreads == 3
MaxCalls == 2
MaxHandles == 3

Threads == 1..MaxThreads
Handles == 1..MaxHandles

\* the process before any call into the layer
NoSocket ==
    [ INIT    |-> "INCOMPLETE",
      winsock |-> 0,
      pc      |-> [t \in Threads |-> "idle"],
      calls   |-> [t \in Threads |-> 0],
      handles |-> [h \in Handles |-> 0] ]

\* the process after one socket() call that returned descriptor 1
OneSocket ==
    [ NoSocket EXCEPT !.INIT = "COMPLETE", !.winsock = 1, !.handles[1] = 1 ]

\* the outcome of a native option or control call: "" for success, else the
\* error WSAGetLastError reports
OptOutcomes == { "", "WSAENOTSOCK" }

\* sock::setsockopt(self.socket, opt, val, payload, size_of::<T>()):
\* the socket after a successful call
os_setsockopt(s, opt, val, payload) ==
    IF <<opt, val>> \in OptKeys
    THEN [s EXCEPT !.opts[<<opt, val>>] = payload]
    ELSE IF <<opt, val>> \in { <<"IPPROTO_IP", "IP_ADD_MEMBERSHIP">>,
                               <<"IPPROTO_IPV6", "IPV6_ADD_MEMBERSHIP">> }
    THEN [s EXCEPT !.mcast = @ \cup { [level |-> opt, mreq |-> payload] }]
    ELSE IF <<opt, val>> \in { <<"IPPROTO_IP", "IP_DROP_MEMBERSHIP">>,
                               <<"IPPROTO_IPV6", "IPV6_DROP_MEMBERSHIP">> }
    THEN [s EXCEPT !.mcast = @ \ { [level |-> opt, mreq |-> payload] }]
    ELSE s

\* sock::getsockopt(self.socket, opt, val, &mut slot, &mut len): the slot
\* after a successful call
os_getsockopt(s, opt, val) == s.opts[<<opt, val>>]

\* unsafe fn setsockopt<T>(&self, opt, val, payload: T) -> io::Result<()>
setsockopt(s, opt, val, payload, oserr) ==
    IF oserr = ""
    THEN [ret |-> Ok("unit"), sock |-> os_setsockopt(s, opt, val, payload),
          native |-> <<[fn |-> "setsockopt", opt |-> opt, val |-> val,
                        payload |-> payload, err |-> oserr]>>]
    ELSE [ret |-> Err(oserr), sock |-> s,
          native |-> <<[fn |-> "setsockopt", opt |-> opt, val |-> val,
                        payload |-> payload, err |-> oserr]>>]

\* mem::size_of::<T>() of the types options are read as
size_of(T) == IF T = "c_char" THEN 1 ELSE 4

\* what a native sock::getsockopt call into a slot of size bytes can do: fail
\* with err, or succeed (err = "") and report in len how many bytes it wrote
GetOutcomes(T) ==
    { [err |-> e, len |-> n] :
        e \in OptOutcomes, n \in { m \in {1, 4} : m <= size_of(T) } }

\* the native call succeeded and wrote all of a slot of type T
Wrote(T) == [err |-> "", len |-> size_of(T)]

\* a panic: the call neither returns a value nor an error
Panic(msg) == [ok |-> FALSE, panic |-> msg]

getsockoptNoAssert(s, opt, val, T, out) ==
    IF out.err = "" THEN Ok(os_getsockopt(s, opt, val)) ELSE Err(out.err)

\* unsafe fn getsockopt<T: Copy>(&self, opt, val) -> io::Result<T>
getsockopt(s, opt, val, T, out) ==
    IF out.err = ""
    THEN IF out.len # size_of(T)
         THEN Panic("assert_eq!(len as usize, mem::size_of::<T>())")
         ELSE Ok(os_getsockopt(s, opt, val))
    ELSE Err(out.err)

\* a call that returned before any native call, or made no change
Local(s, ret) == [ret |-> ret, sock |-> s, native |-> <<>>]

\* the step of a call that may change the socket
Does(op, arg, r) ==
    /\ sock' = r.sock
    /\ call' = [op |-> op, arg |-> arg, ret |-> r.ret, native |-> r.native]
    /\ UNCHANGED <<host, proc>>

\* the step of a call that only reads the socket
Reads(op, ret) ==
    /\ call' = [op |-> op, ret |-> ret]
    /\ UNCHANGED <<host, sock, proc>>

---------------------------------------------------------------------------
(* Timeouts *)

\* pub fn set_read_timeout(&self, dur): setsockopt(.., dur2ms(dur)?), where
\* the ? returns the local error before the native call is made
set_read_timeout(s, dur, oserr) ==
    LET ms == dur2ms(dur)
    IN  IF ~ms.ok THEN Local(s, ms)
        ELSE setsockopt(s, "SOL_SOCKET", "SO_RCVTIMEO", ms.val, oserr)

\* pub fn set_write_timeout(&self, dur)
set_write_timeout(s, dur, oserr) ==
    LET ms == dur2ms(dur)
    IN  IF ~ms.ok THEN Local(s, ms)
        ELSE setsockopt(s, "SOL_SOCKET", "SO_SNDTIMEO", ms.val, oserr)

\* pub fn read_timeout(&self): Ok(ms2dur(getsockopt(..)?))
read_timeout(s, out) ==
    LET raw == getsockopt(s, "SOL_SOCKET", "SO_RCVTIMEO", "DWORD", out)
    IN  IF ~raw.ok THEN raw ELSE Ok(ms2dur(raw.val))

\* pub fn write_timeout(&self)
write_timeout(s, out) ==
    LET raw == getsockopt(s, "SOL_SOCKET", "SO_SNDTIMEO", "DWORD", out)
    IN  IF ~raw.ok THEN raw ELSE Ok(ms2dur(raw.val))

SetReadTimeout(dur, oserr) ==
    Does("set_read_timeout", dur, set_read_timeout(sock, dur, oserr))

SetWriteTimeout(dur, oserr) ==
    Does("set_write_timeout", dur, set_write_timeout(sock, dur, oserr))

ReadTimeout(out) == Reads("read_timeout", read_timeout(sock, out))

WriteTimeout(out) == Reads("write_timeout", write_timeout(sock, out))

\* the durations the timeout setters are called with
TimeoutInputs ==
    { None } \cup
    { Some(Duration(s, n)) :
        s \in { <<>>, Wide(1), Wide(4294967), U64_MAX },
        n \in { 0, 1, 1000000, 295000001, 999999999 } }

InitOpt ==
    /\ host = [endian |-> "little"]
    /\ proc = OneSocket
    /\ sock = NewSocket("SOCK_STREAM")
    /\ call = NoCall

NextTimeout ==
    \/ \E dur \in TimeoutInputs, e \in OptOutcomes : SetReadTimeout(dur, e)
    \/ \E dur \in TimeoutInputs, e \in OptOutcomes : SetWriteTimeout(dur, e)
    \/ \E e \in GetOutcomes("DWORD") : ReadTimeout(e)
    \/ \E e \in GetOutcomes("DWORD") : WriteTimeout(e)

SpecTimeout == InitOpt /\ [][NextTimeout]_vars

\* C4: set_read_timeout and set_write_timeout fail with InvalidInput exactly
\* when called with Some(zero duration); a call that fails so made no native
\* option write and left the socket's stored timeouts as they were; every
\* other argument reaches the native option write (a sub-millisecond duration
\* as 1 ms).
C4_ZeroTimeoutRejectedLocally ==
    [][ call'.op \in {"set_read_timeout", "set_write_timeout"} =>
          /\ (call'.ret = Err("InvalidInput")) <=> (call'.arg = Some(ZeroDuration))
          /\ call'.ret = Err("InvalidInput") => (call'.native = <<>> /\ sock' = sock)
          /\ call'.arg # Some(ZeroDuration) =>
               /\ Len(call'.native) = 1
               /\ call'.native[1].val =
                    (IF call'.op = "set_read_timeout" THEN "SO_RCVTIMEO" ELSE "SO_SNDTIMEO")
          /\ ( /\ call'.arg # None
               /\ call'.arg # Some(ZeroDuration)
               /\ call'.arg[1].secs = <<>>
               /\ call'.arg[1].nanos <= NANOS_PER_MILLI )
             => call'.native[1].payload = Wide(1)
      ]_vars

\* a zero timeout was rejected on a socket that holds a read timeout
C4_Witness ==
    /\ call.op = "set_read_timeout"
    /\ call.arg = Some(ZeroDuration)
    /\ call.ret = Err("InvalidInput")
    /\ sock.opts[<<"SOL_SOCKET", "SO_RCVTIMEO">>] = Wide(1)

---------------------------------------------------------------------------
(* Keepalive: not in the option table, but behind WSAIoctl with            *)
(* SIO_KEEPALIVE_VALS                                                      *)

\* sock::WSAIoctl(self.socket, SIO_KEEPALIVE_VALS, &ka, ..): the socket after
\* a successful call that passes ka in
os_WSAIoctl_in(s, ka) == [s EXCEPT !.ka = ka]

\* sock::WSAIoctl(self.socket, SIO_KEEPALIVE_VALS, null, 0, &mut ka, ..): the
\* structure the OS writes out in a successful call
os_WSAIoctl_out(s) == s.ka

\* `keepalive.is_some() as c_ulong`, `x as c_int`, `x as c_char` of a bool
bool_as_int(b) == IF b THEN 1 ELSE 0

set_keepaliveIntervalOneSecond(s, keepalive, oserr) ==
    LET ms == dur2ms(keepalive)
    IN  IF ~ms.ok THEN Local(s, ms)
        ELSE LET ka == tcp_keepalive(bool_as_int(is_some(keepalive)), ms.val, Wide(1000))
                 n  == [fn |-> "WSAIoctl", ka |-> ka, err |-> oserr]
             IN  IF oserr = ""
                 THEN [ret |-> Ok("unit"), sock |-> os_WSAIoctl_in(s, ka), native |-> <<n>>]
                 ELSE [ret |-> Err(oserr), sock |-> s, native |-> <<n>>]

\* pub fn set_keepalive(&self, keepalive: Option<Duration>) -> io::Result<()>
\* (c_ulong is 32 bits wide here, so `ms as c_ulong` changes nothing)
set_keepalive(s, keepalive, oserr) ==
    LET ms == dur2ms(keepalive)
    IN  IF ~ms.ok THEN Local(s, ms)
        ELSE LET ka == tcp_keepalive(bool_as_int(is_some(keepalive)), ms.val, ms.val)
                 n  == [fn |-> "WSAIoctl", ka |-> ka, err |-> oserr]
             IN  IF oserr = ""
                 THEN [ret |-> Ok("unit"), sock |-> os_WSAIoctl_in(s, ka), native |-> <<n>>]
                 ELSE [ret |-> Err(oserr), sock |-> s, native |-> <<n>>]

keepaliveWholeSeconds(s, oserr) ==
    IF oserr = ""
    THEN LET ka == os_WSAIoctl_out(s)
         IN  Ok(IF ka.onoff = 0 THEN None
                ELSE IF ka.keepaliveinterval = <<>> THEN None
                ELSE Some(Duration(DivBase(ka.keepaliveinterval), 0)))
    ELSE Err(oserr)

\* pub fn keepalive(&self) -> io::Result<Option<Duration>>
keepalive(s, oserr) ==
    IF oserr = ""
    THEN LET ka == os_WSAIoctl_out(s)
         IN  Ok(IF ka.onoff = 0 THEN None
                ELSE IF ka.keepaliveinterval = <<>> THEN None
                ELSE LET seconds == DivBase(ka.keepaliveinterval)
                         nanos   == ModBase(ka.keepaliveinterval) * 1000000
                     IN  Some(Duration(seconds, nanos)))
    ELSE Err(oserr)

SetKeepalive(dur, oserr) == Does("set_keepalive", dur, set_keepalive(sock, dur, oserr))

Keepalive(oserr) == Reads("keepalive", keepalive(sock, oserr))

NextKeepalive ==
    \/ \E dur \in OptDurations, e \in OptOutcomes : SetKeepalive(dur, e)
    \/ \E e \in OptOutcomes : Keepalive(e)

\* a new socket's keepalive structure holds whatever the OS starts it with:
\* on or off, with an interval of zero or of one second
InitKeepalive ==
    /\ host = [endian |-> "little"]
    /\ proc = OneSocket
    /\ \E onoff \in {0, 1}, interval \in { <<>>, Wide(1000) } :
         sock = [NewSocket("SOCK_STREAM") EXCEPT
                   !.ka = tcp_keepalive(onoff, <<0, 200, 7>>, interval)]
    /\ call = NoCall

SpecKeepalive == InitKeepalive /\ [][NextKeepalive]_vars

\* d + 1 ms
PlusMilli(d) ==
    LET n == d.nanos + NANOS_PER_MILLI
    IN  IF n >= 1000 * NANOS_PER_MILLI
        THEN Duration(MulAdd(d.secs, 1, 1), n - 1000 * NANOS_PER_MILLI)
        ELSE Duration(d.secs, n)

\* a and b differ by less than one millisecond
WithinMilli(a, b) == DurLt(a, PlusMilli(b)) /\ DurLt(b, PlusMilli(a))

\* keepalive() right after a successful set_keepalive
SetThenGetKeepalive ==
    /\ call.op = "set_keepalive"
    /\ call.ret.ok
    /\ call'.op = "keepalive"
    /\ call'.ret.ok

\* C6 as claimed: keepalive() after a successful set_keepalive(Some(d)) returns
\* Some(d') with d' a whole number of milliseconds less than one millisecond
\* away from d, and after set_keepalive(None) returns None.
C6_AsClaimed ==
    [][ SetThenGetKeepalive =>
          IF call.arg = None THEN call'.ret.val = None
          ELSE /\ call'.ret.val # None
               /\ call'.ret.val[1].nanos % NANOS_PER_MILLI = 0
               /\ WithinMilli(call'.ret.val[1], call.arg[1])
      ]_vars

\* C6 amended: set_keepalive(Some(d)) succeeds locally exactly for d > 0, and
\* keepalive() after a successful set_keepalive(Some(d)) returns Some(d') with
\* d' = d rounded up to whole milliseconds and saturated at u32::MAX
\* milliseconds, which is less than one millisecond away from d whenever d is at
\* most u32::MAX milliseconds; after set_keepalive(None) it returns None.
C6_KeepaliveRoundTrip ==
    [][ /\ call'.op = "set_keepalive" =>
             (call'.ret = Err("InvalidInput")) <=> (call'.arg = Some(ZeroDuration))
        /\ SetThenGetKeepalive =>
             IF call.arg = None THEN call'.ret.val = None
             ELSE /\ call'.ret.val = Some(RoundUpMsSat(call.arg[1]))
                  /\ ~DurLt(MaxTimeout, call.arg[1]) =>
                       /\ call'.ret.val[1].nanos % NANOS_PER_MILLI = 0
                       /\ WithinMilli(call'.ret.val[1], call.arg[1])
      ]_vars

\* keepalive() reports the saturated interval that a set_keepalive of more
\* than u32::MAX milliseconds left on the socket
C6_Witness ==
    /\ call.op = "keepalive"
    /\ call.ret = Ok(Some(MaxTimeout))
    /\ sock.ka = tcp_keepalive(1, INFINITE, INFINITE)

---------------------------------------------------------------------------
(* Linger *)

\* the u16 range
U16_MAX == 65535

RECURSIVE WrapAt(_, _, _)
\* the digits a[1..i] of a wide integer, modulo m
WrapAt(a, i, m) ==
    IF i > Len(a) THEN 0
    ELSE (a[i] + Base * WrapAt(a, i + 1, m)) % m

\* `x as u16` of a u64: the low 16 bits
as_u16(a) == WrapAt(a, 1, U16_MAX + 1)

\* fn dur2linger(dur: Option<Duration>) -> sock::linger
dur2linger(dur) ==
    IF dur = None THEN linger_t(0, 0)
    ELSE linger_t(1, as_u16(dur[1].secs))

\* fn linger2dur(linger_opt: sock::linger) -> Option<Duration>
linger2dur(linger_opt) ==
    IF linger_opt.l_onoff = 0 THEN None
    ELSE Some(Duration(Wide(linger_opt.l_linger), 0))

\* pub fn set_linger(&self, dur: Option<Duration>) -> io::Result<()>
set_linger(s, dur, oserr) ==
    setsockopt(s, "SOL_SOCKET", "SO_LINGER", dur2linger(dur), oserr)

\* pub fn linger(&self) -> io::Result<Option<Duration>>
linger(s, out) ==
    LET raw == getsockopt(s, "SOL_SOCKET", "SO_LINGER", "linger", out)
    IN  IF ~raw.ok THEN raw ELSE Ok(linger2dur(raw.val))

SetLinger(dur, oserr) == Does("set_linger", dur, set_linger(sock, dur, oserr))

Linger(out) == Reads("linger", linger(sock, out))

NextLinger ==
    \/ \E dur \in OptDurations, e \in OptOutcomes : SetLinger(dur, e)
    \/ \E e \in GetOutcomes("linger") : Linger(e)

SpecLinger == InitOpt /\ [][NextLinger]_vars

\* whole seconds of d, capped at the 16-bit field's maximum
SecsSat16(d) ==
    IF Lt(Wide(U16_MAX), d.secs) THEN U16_MAX
    ELSE ModBase(d.secs) + Base * ModBase(DivBase(d.secs))

\* C7: set_linger(None) writes linger disabled; set_linger(Some(d)) writes
\* linger enabled with the timeout d truncated to whole seconds and saturated
\* at 65535, never wrapped to a smaller value.
C7_LingerSaturates ==
    call.op = "set_linger" =>
        /\ Len(call.native) = 1
        /\ call.native[1].opt = "SOL_SOCKET" /\ call.native[1].val = "SO_LINGER"
        /\ call.native[1].payload =
             IF call.arg = None THEN linger_t(0, 0)
             ELSE linger_t(1, SecsSat16(call.arg[1]))

---------------------------------------------------------------------------
(* The boolean options: each setter writes the bool as an integer (c_int,  *)
(* c_char for TCP_NODELAY), each getter reports `raw != 0`                 *)

\* `Ok(raw != 0)` of `let raw = self.getsockopt(..)?`
raw_ne_0(raw) == IF ~raw.ok THEN raw ELSE Ok(raw.val # 0)

\* pub fn only_v6 / set_only_v6
only_v6(s, out) == raw_ne_0(getsockopt(s, "IPPROTO_IPV6", "IPV6_V6ONLY", "c_int", out))
set_only_v6(s, x, oserr) ==
    setsockopt(s, "IPPROTO_IPV6", "IPV6_V6ONLY", bool_as_int(x), oserr)

\* pub fn nodelay / set_nodelay
nodelay(s, out) == raw_ne_0(getsockopt(s, "IPPROTO_TCP", "TCP_NODELAY", "c_char", out))
set_nodelay(s, x, oserr) ==
    setsockopt(s, "IPPROTO_TCP", "TCP_NODELAY", bool_as_int(x), oserr)

\* pub fn broadcast / set_broadcast
broadcast(s, out) == raw_ne_0(getsockopt(s, "SOL_SOCKET", "SO_BROADCAST", "c_int", out))
set_broadcast(s, x, oserr) ==
    setsockopt(s, "SOL_SOCKET", "SO_BROADCAST", bool_as_int(x), oserr)

\* pub fn multicast_loop_v4 / set_multicast_loop_v4
multicast_loop_v4(s, out) ==
    raw_ne_0(getsockopt(s, "IPPROTO_IP", "IP_MULTICAST_LOOP", "c_int", out))
set_multicast_loop_v4(s, x, oserr) ==
    setsockopt(s, "IPPROTO_IP", "IP_MULTICAST_LOOP", bool_as_int(x), oserr)

\* pub fn multicast_loop_v6 / set_multicast_loop_v6
multicast_loop_v6(s, out) ==
    raw_ne_0(getsockopt(s, "IPPROTO_IPV6", "IPV6_MULTICAST_LOOP", "c_int", out))
set_multicast_loop_v6(s, x, oserr) ==
    setsockopt(s, "IPPROTO_IPV6", "IPV6_MULTICAST_LOOP", bool_as_int(x), oserr)

set_reuse_addressAsBroadcast(s, x, oserr) ==
    setsockopt(s, "SOL_SOCKET", "SO_BROADCAST", bool_as_int(x), oserr)

\* pub fn reuse_address / set_reuse_address
reuse_address(s, out) == raw_ne_0(getsockopt(s, "SOL_SOCKET", "SO_REUSEADDR", "c_int", out))
set_reuse_address(s, x, oserr) ==
    setsockopt(s, "SOL_SOCKET", "SO_REUSEADDR", bool_as_int(x), oserr)

\* pub fn out_of_band_inline / set_out_of_band_inline
out_of_band_inline(s, out) ==
    raw_ne_0(getsockopt(s, "SOL_SOCKET", "SO_OOBINLINE", "c_int", out))
set_out_of_band_inline(s, x, oserr) ==
    setsockopt(s, "SOL_SOCKET", "SO_OOBINLINE", bool_as_int(x), oserr)

\* a new socket's boolean options hold whatever defaults the OS gives them
InitBoolOpt ==
    /\ host = [endian |-> "little"]
    /\ proc = OneSocket
    /\ \E dflt \in [BoolKeys -> {0, 1}] :
         sock = [NewSocket("SOCK_STREAM") EXCEPT
                   !.opts = [k \in OptKeys |-> IF k \in BoolKeys THEN dflt[k] ELSE @[k]]]
    /\ call = NoCall

NextBoolOpt ==
    \/ \E e \in GetOutcomes("c_int") :
         Reads("only_v6", only_v6(sock, e))
    \/ \E x \in BOOLEAN, e \in OptOutcomes :
         Does("set_only_v6", x, set_only_v6(sock, x, e))
    \/ \E e \in GetOutcomes("c_char") :
         Reads("nodelay", nodelay(sock, e))
    \/ \E x \in BOOLEAN, e \in OptOutcomes :
         Does("set_nodelay", x, set_nodelay(sock, x, e))
    \/ \E e \in GetOutcomes("c_int") :
         Reads("broadcast", broadcast(sock, e))
    \/ \E x \in BOOLEAN, e \in OptOutcomes :
         Does("set_broadcast", x, set_broadcast(sock, x, e))
    \/ \E e \in GetOutcomes("c_int") :
         Reads("multicast_loop_v4", multicast_loop_v4(sock, e))
    \/ \E x \in BOOLEAN, e \in OptOutcomes :
         Does("set_multicast_loop_v4", x, set_multicast_loop_v4(sock, x, e))
    \/ \E e \in GetOutcomes("c_int") :
         Reads("multicast_loop_v6", multicast_loop_v6(sock, e))
    \/ \E x \in BOOLEAN, e \in OptOutcomes :
         Does("set_multicast_loop_v6", x, set_multicast_loop_v6(sock, x, e))
    \/ \E e \in GetOutcomes("c_int") :
         Reads("reuse_address", reuse_address(sock, e))
    \/ \E x \in BOOLEAN, e \in OptOutcomes :
         Does("set_reuse_address", x, set_reuse_address(sock, x, e))
    \/ \E e \in GetOutcomes("c_int") :
         Reads("out_of_band_inline", out_of_band_inline(sock, e))
    \/ \E x \in BOOLEAN, e \in OptOutcomes :
         Does("set_out_of_band_inline", x, set_out_of_band_inline(sock, x, e))

SpecBoolOpt == InitBoolOpt /\ [][NextBoolOpt]_vars

\* the getters of the boolean options, by name
BoolGetters ==
    { "only_v6", "nodelay", "broadcast", "multicast_loop_v4", "multicast_loop_v6",
      "reuse_address", "out_of_band_inline" }

\* what getter g returns on socket s when the OS call succeeds
Get(g, s) ==
    CASE g = "only_v6" -> only_v6(s, Wrote("c_int"))
      [] g = "nodelay" -> nodelay(s, Wrote("c_char"))
      [] g = "broadcast" -> broadcast(s, Wrote("c_int"))
      [] g = "multicast_loop_v4" -> multicast_loop_v4(s, Wrote("c_int"))
      [] g = "multicast_loop_v6" -> multicast_loop_v6(s, Wrote("c_int"))
      [] g = "reuse_address" -> reuse_address(s, Wrote("c_int"))
      [] g = "out_of_band_inline" -> out_of_band_inline(s, Wrote("c_int"))

\* the setter of getter g
SetterOf(g) == "set_" \o g

\* C8: for every boolean option and both x: a get() that follows a successful
\* set(x) returns x; and a set, successful or not, leaves what every other
\* boolean option's get() returns as it was (so a get() returns the x of the
\* last successful set of its own option, whatever was set in between).
C8_BoolOptionSymmetry ==
    [][ \A g \in BoolGetters :
          /\ (call.op = SetterOf(g) /\ call.ret.ok /\ call'.op = g /\ call'.ret.ok)
               => call'.ret.val = call.arg
          /\ (call'.op = SetterOf(g) /\ call'.ret.ok)
               => Get(g, sock') = Ok(call'.arg)
          /\ (call'.op \in { SetterOf(h) : h \in BoolGetters \ {g} })
               => Get(g, sock') = Get(g, sock)
          /\ (call'.op = SetterOf(g) /\ ~call'.ret.ok)
               => Get(g, sock') = Get(g, sock)
      ]_vars

\* reuse_address() returned the true that was set, with broadcast false and
\* set after it
C8_Witness ==
    /\ call.op = "reuse_address"
    /\ call.ret = Ok(TRUE)
    /\ sock.opts[<<"SOL_SOCKET", "SO_REUSEADDR">>] = 1
    /\ sock.opts[<<"SOL_SOCKET", "SO_BROADCAST">>] = 0
    /\ sock.opts[<<"SOL_SOCKET", "SO_OOBINLINE">>] = 1

---------------------------------------------------------------------------
(* Receiving and sending *)

MSG_PEEK == 2
MSG_TRUNC == 1
SD_BOTH == 2
SD_RECEIVE == 0
SD_SEND == 1
SOCKET_ERROR == -1

\* <c_int>::max_value() = i32::MAX
C_INT_MAX == 2147483647

\* the largest datagram (or run of stream bytes) that arrives, the most of
\* them that wait in the receive queue and the most buffers of a vectored call
MaxDgram == 2
MaxQueue == 1
MaxBufs == 2

RECURSIVE Low32At(_, _)
\* the low 32 bits of the digits a[i..] of a wide integer, as <<high 16 bits,
\* low 16 bits>>
Low32At(a, i) ==
    IF i > Len(a) THEN <<0, 0>>
    ELSE LET up == Low32At(a, i + 1)
             lo == up[2] * Base + a[i]
             hi == up[1] * Base + (lo \div 65536)
         IN  <<hi % 65536, lo % 65536>>

\* `x as c_int` of a usize: the low 32 bits, read as two's complement
as_c_int(a) ==
    LET w == Low32At(a, 1)
    IN  IF w[1] >= 32768 THEN (w[1] - 65536) * 65536 + w[2]
        ELSE w[1] * 65536 + w[2]

\* cmp::min on usize
cmp_min(a, b) == IF Lt(b, a) THEN b ELSE a

clampWraps(input) == as_c_int(input)

\* fn clamp(input: usize) -> c_int
clamp(input) == as_c_int(cmp_min(input, Wide(C_INT_MAX)))

RECURSIVE Sum(_)
Sum(q) == IF q = <<>> THEN 0 ELSE Head(q) + Sum(Tail(q))

\* whether the flags of a receive call hold MSG_PEEK
Peeks(flags) == (flags \div MSG_PEEK) % 2 = 1

\* The OS receiving into room bytes of buffer space.  fault is a failure that
\* does not depend on the socket's state ("" for none).  A receive on a
\* socket shut down for reading fails with WSAESHUTDOWN, one on an empty
\* queue with WSAEWOULDBLOCK.  A datagram larger than the room fills the room
\* and fails with WSAEMSGSIZE; the rest of it is lost.  A stream gives up to
\* room bytes and keeps the rest.  MSG_PEEK leaves the queue as it is.
\* The result: ok, the error code, the bytes copied, the sender's address as
\* written to the address storage, and the socket afterwards.
os_receive(s, room, flags, fault) ==
    LET fail(err, copied, from, after) ==
            [ok |-> FALSE, err |-> err, copied |-> copied, from |-> from, sock |-> after]
        taken == IF Peeks(flags) THEN s ELSE [s EXCEPT !.rxq = Tail(@)]
    IN  IF fault # "" THEN fail(fault, 0, "zeroed", s)
        ELSE IF room < 0 THEN fail("WSAEFAULT", 0, "zeroed", s)
        ELSE IF s.rdShut THEN fail("WSAESHUTDOWN", 0, "zeroed", s)
        ELSE IF s.rxq = <<>> THEN fail("WSAEWOULDBLOCK", 0, "zeroed", s)
        ELSE IF s.ty = "SOCK_DGRAM" /\ Head(s.rxq) > room
             THEN fail("WSAEMSGSIZE", room, "sender", taken)
        ELSE IF s.ty = "SOCK_DGRAM" \/ Head(s.rxq) <= room
             THEN [ok |-> TRUE, err |-> "", copied |-> Head(s.rxq),
                   from |-> "sender", sock |-> taken]
        ELSE [ok |-> TRUE, err |-> "", copied |-> room, from |-> "sender",
              sock |-> IF Peeks(flags) THEN s
                       ELSE [s EXCEPT !.rxq = <<Head(@) - room>> \o Tail(@)]]

\* sock::recv and sock::recvfrom: the value returned and WSAGetLastError()
os_recv(s, len, flags, fault) ==
    LET r == os_receive(s, len, flags, fault)
    IN  [n |-> IF r.ok THEN r.copied ELSE SOCKET_ERROR, err |-> r.err,
         from |-> r.from, sock |-> r.sock]

\* sock::WSARecv and sock::WSARecvFrom: the value returned, the count written
\* to lpNumberOfBytesRecvd and WSAGetLastError()
os_WSARecv(s, bufs, flags, fault) ==
    LET r == os_receive(s, Sum(bufs), flags, fault)
    IN  [ret |-> IF r.ok THEN 0 ELSE SOCKET_ERROR, err |-> r.err,
         nread |-> r.copied, from |-> r.from, sock |-> r.sock]

\* sock::send and sock::sendto
os_send(s, len, fault) ==
    IF fault # "" THEN [n |-> SOCKET_ERROR, err |-> fault]
    ELSE IF len < 0 THEN [n |-> SOCKET_ERROR, err |-> "WSAEFAULT"]
    ELSE IF s.wrShut THEN [n |-> SOCKET_ERROR, err |-> "WSAESHUTDOWN"]
    ELSE [n |-> len, err |-> ""]

\* sock::shutdown
os_shutdown(s, how) ==
    [s EXCEPT !.rdShut = @ \/ how \in {SD_RECEIVE, SD_BOTH},
              !.wrShut = @ \/ how \in {SD_SEND, SD_BOTH}]

\* the record of a native receive or send call
Native(fn, len, flags, r) ==
    <<[fn |-> fn, len |-> len, flags |-> flags, err |-> r.err]>>

\* RecvFlags(c_int)
RecvFlags(bits) == [bits |-> bits]

\* pub fn shutdown(&self, how: Shutdown) -> io::Result<()>
shutdown(s, how, fault) ==
    LET sd == CASE how = "Write" -> SD_SEND
                [] how = "Read" -> SD_RECEIVE
                [] how = "Both" -> SD_BOTH
        n  == <<[fn |-> "shutdown", how |-> sd, err |-> fault]>>
    IN  IF fault = ""
        THEN [ret |-> Ok("unit"), sock |-> os_shutdown(s, sd), native |-> n]
        ELSE [ret |-> Err(fault), sock |-> s, native |-> n]

recvNoShutdownArm(s, len, flags, fault) ==
    LET r == os_recv(s, clamp(len), flags, fault)
    IN  [ret |-> IF r.n = SOCKET_ERROR THEN Err(r.err) ELSE Ok(r.n),
         sock |-> r.sock, native |-> Native("recv", clamp(len), flags, r)]

\* pub fn recv(&self, buf: &mut [u8], flags: c_int) -> io::Result<usize>
recv(s, len, flags, fault) ==
    LET r == os_recv(s, clamp(len), flags, fault)
    IN  [ret |-> IF r.n = SOCKET_ERROR /\ r.err = "WSAESHUTDOWN" THEN Ok(0)
                 ELSE IF r.n = SOCKET_ERROR THEN Err(r.err)
                 ELSE Ok(r.n),
         sock |-> r.sock, native |-> Native("recv", clamp(len), flags, r)]

\* pub fn peek(&self, buf: &mut [u8]) -> io::Result<usize>
peek(s, len, fault) ==
    LET r == os_recv(s, clamp(len), MSG_PEEK, fault)
    IN  [ret |-> IF r.n = SOCKET_ERROR /\ r.err = "WSAESHUTDOWN" THEN Ok(0)
                 ELSE IF r.n = SOCKET_ERROR THEN Err(r.err)
                 ELSE Ok(r.n),
         sock |-> r.sock, native |-> Native("recv", clamp(len), MSG_PEEK, r)]

recv_fromAnyErrorAsZero(s, len, flags, fault) ==
    LET r == os_recv(s, clamp(len), flags, fault)
        n == IF r.n = SOCKET_ERROR THEN 0 ELSE r.n
    IN  [ret |-> Ok(<<n, r.from>>),
         sock |-> r.sock, native |-> Native("recvfrom", clamp(len), flags, r)]

\* pub fn recv_from(&self, buf: &mut [u8], flags: c_int)
\*     -> io::Result<(usize, SockAddr)>
recv_from(s, len, flags, fault) ==
    LET r == os_recv(s, clamp(len), flags, fault)
        n == IF r.n = SOCKET_ERROR /\ r.err = "WSAESHUTDOWN" THEN 0 ELSE r.n
    IN  [ret |-> IF r.n = SOCKET_ERROR /\ r.err # "WSAESHUTDOWN" THEN Err(r.err)
                 ELSE Ok(<<n, r.from>>),
         sock |-> r.sock, native |-> Native("recvfrom", clamp(len), flags, r)]

\* pub fn peek_from(&self, buf: &mut [u8]) -> io::Result<(usize, SockAddr)>
peek_from(s, len, fault) == recv_from(s, len, MSG_PEEK, fault)

recv_vectoredNoTruncArm(s, bufs, flags, fault) ==
    LET r == os_WSARecv(s, bufs, flags, fault)
    IN  [ret |-> IF r.ret = 0 THEN Ok(<<r.nread, RecvFlags(0)>>)
                 ELSE IF r.err = "WSAESHUTDOWN" THEN Ok(<<0, RecvFlags(0)>>)
                 ELSE Err(r.err),
         sock |-> r.sock, native |-> Native("WSARecv", bufs, flags, r)]

recv_vectoredTruncOnShutdown(s, bufs, flags, fault) ==
    LET r == os_WSARecv(s, bufs, flags, fault)
    IN  [ret |-> IF r.ret = 0 THEN Ok(<<r.nread, RecvFlags(0)>>)
                 ELSE IF r.err \in {"WSAESHUTDOWN", "WSAEMSGSIZE"}
                      THEN Ok(<<r.nread, RecvFlags(MSG_TRUNC)>>)
                 ELSE Err(r.err),
         sock |-> r.sock, native |-> Native("WSARecv", bufs, flags, r)]

\* pub fn recv_vectored(&self, bufs: &mut [IoSliceMut<'_>], flags: c_int)
\*     -> io::Result<(usize, RecvFlags)>
recv_vectored(s, bufs, flags, fault) ==
    LET r == os_WSARecv(s, bufs, flags, fault)
    IN  [ret |-> IF r.ret = 0 THEN Ok(<<r.nread, RecvFlags(0)>>)
                 ELSE IF r.err = "WSAESHUTDOWN" THEN Ok(<<0, RecvFlags(0)>>)
                 ELSE IF r.err = "WSAEMSGSIZE" THEN Ok(<<r.nread, RecvFlags(MSG_TRUNC)>>)
                 ELSE Err(r.err),
         sock |-> r.sock, native |-> Native("WSARecv", bufs, flags, r)]

\* pub fn recv_from_vectored(&self, bufs: &mut [IoSliceMut<'_>], flags: c_int)
\*     -> io::Result<(usize, RecvFlags, SockAddr)>
recv_from_vectored(s, bufs, flags, fault) ==
    LET r == os_WSARecv(s, bufs, flags, fault)
    IN  [ret |-> IF r.ret = 0 THEN Ok(<<r.nread, RecvFlags(0), r.from>>)
                 ELSE IF r.err = "WSAEMSGSIZE"
                      THEN Ok(<<r.nread, RecvFlags(MSG_TRUNC), r.from>>)
                 ELSE Err(r.err),
         sock |-> r.sock, native |-> Native("WSARecvFrom", bufs, flags, r)]

\* pub fn send(&self, buf: &[u8], flags: c_int) -> io::Result<usize>
send(s, len, flags, fault) ==
    LET r == os_send(s, clamp(len), fault)
    IN  [ret |-> IF r.n = SOCKET_ERROR THEN Err(r.err) ELSE Ok(r.n),
         sock |-> s, native |-> Native("send", clamp(len), flags, r)]

\* pub fn send_to(&self, buf: &[u8], flags: c_int, addr: &SockAddr)
\*     -> io::Result<usize>
send_to(s, len, flags, fault) ==
    LET r == os_send(s, clamp(len), fault)
    IN  [ret |-> IF r.n = SOCKET_ERROR THEN Err(r.err) ELSE Ok(r.n),
         sock |-> s, native |-> Native("sendto", clamp(len), flags, r)]

\* buf.len() of the calls: around 0, i32::MAX, 2^32 and usize::MAX
BufLens ==
    { <<>>, Wide(1), Wide(C_INT_MAX), <<648, 483, 147, 2>>,
      <<297, 967, 294, 4>>, U64_MAX }

\* the buffers of a vectored call, by their lengths: empty and one-byte
\* buffers
BufLists == UNION { [1..n -> {0, 1}] : n \in 0..MaxBufs }

\* failures of a native call that do not depend on the socket's state
Faults == { "", "WSAECONNRESET" }

\* the network delivers a datagram, or a run of stream bytes, of n bytes
Arrive(n) ==
    /\ Len(sock.rxq) < MaxQueue
    /\ sock' = [sock EXCEPT !.rxq = Append(@, n)]
    /\ call' = [op |-> "arrive", arg |-> n]
    /\ UNCHANGED <<host, proc>>

InitIO ==
    /\ host = [endian |-> "little"]
    /\ proc = OneSocket
    /\ \E ty \in {"SOCK_STREAM", "SOCK_DGRAM"} : sock = NewSocket(ty)
    /\ call = NoCall

NextIO ==
    \/ \E n \in 1..MaxDgram : Arrive(n)
    \/ \E how \in {"Read", "Write", "Both"}, f \in Faults :
         Does("shutdown", how, shutdown(sock, how, f))
    \/ \E len \in BufLens, flags \in {0, MSG_PEEK}, f \in Faults :
         Does("recv", [len |-> len, flags |-> flags], recv(sock, len, flags, f))
    \/ \E len \in BufLens, f \in Faults :
         Does("peek", [len |-> len], peek(sock, len, f))
    \/ \E len \in BufLens, flags \in {0, MSG_PEEK}, f \in Faults :
         Does("recv_from", [len |-> len, flags |-> flags],
              recv_from(sock, len, flags, f))
    \/ \E len \in BufLens, f \in Faults :
         Does("peek_from", [len |-> len], peek_from(sock, len, f))
    \/ \E bufs \in BufLists, f \in Faults :
         Does("recv_vectored", [bufs |-> bufs, flags |-> 0],
              recv_vectored(sock, bufs, 0, f))
    \/ \E bufs \in BufLists, f \in Faults :
         Does("recv_from_vectored", [bufs |-> bufs, flags |-> 0],
              recv_from_vectored(sock, bufs, 0, f))
    \/ \E len \in BufLens, f \in Faults :
         Does("send", [len |-> len], send(sock, len, 0, f))
    \/ \E len \in BufLens, f \in Faults :
         Does("send_to", [len |-> len], send_to(sock, len, 0, f))

SpecIO == InitIO /\ [][NextIO]_vars

\* the receive calls that take one buffer, and the vectored ones
PlainReceives == { "recv", "recv_from", "peek", "peek_from" }
VectoredReceives == { "recv_vectored", "recv_from_vectored" }

\* the byte count of a successful receive
Received(c) == IF c.op \in {"recv", "peek"} THEN c.ret.val ELSE c.ret.val[1]

\* C1: whenever the native call of recv, recv_from, peek or peek_from fails
\* with WSAESHUTDOWN, the operation returns success with 0 bytes; and on a
\* socket shut down for reading whose native call met no other failure, these
\* operations return success with 0 bytes.
C1_ShutdownReadsAsZero ==
    call.op \in PlainReceives =>
        /\ call.native[1].err = "WSAESHUTDOWN" => (call.ret.ok /\ Received(call) = 0)
        /\ (sock.rdShut /\ call.native[1].err \notin (Faults \ {""}))
             => (call.ret.ok /\ Received(call) = 0)

\* recv on a connected stream after shutdown(Read) returned Ok(0)
C1_Witness ==
    /\ sock.ty = "SOCK_STREAM"
    /\ sock.rdShut
    /\ sock.rxq # <<>>
    /\ call.op = "recv"
    /\ call.native[1].err = "WSAESHUTDOWN"
    /\ call.ret = Ok(0)

\* C2: whenever the native call of recv_vectored or recv_from_vectored fails
\* with WSAESHUTDOWN, the operation returns success with 0 bytes and the
\* truncation flag clear.
C2_VectoredShutdownReadsAsZero ==
    (call.op \in VectoredReceives /\ call.native[1].err = "WSAESHUTDOWN") =>
        /\ call.ret.ok
        /\ call.ret.val[1] = 0
        /\ call.ret.val[2] = RecvFlags(0)

\* C3: whenever the native call of recv_vectored or recv_from_vectored fails
\* with WSAEMSGSIZE the operation succeeds with the bytes that fit the buffers
\* and the truncation flag set; and that is what happens when the datagram at
\* the head of the queue is larger than the buffers together (on a socket not
\* shut down for reading, the native call meeting no other failure).
C3_TruncatedDatagram ==
    [][ call'.op \in VectoredReceives =>
          /\ call'.native[1].err = "WSAEMSGSIZE" =>
               /\ call'.ret.ok
               /\ call'.ret.val[1] = Sum(call'.arg.bufs)
               /\ call'.ret.val[2] = RecvFlags(MSG_TRUNC)
          /\ ( /\ sock.ty = "SOCK_DGRAM"
               /\ ~sock.rdShut
               /\ sock.rxq # <<>>
               /\ Head(sock.rxq) > Sum(call'.arg.bufs)
               /\ call'.native[1].err \notin (Faults \ {""}) )
             => /\ call'.ret.ok
                /\ call'.ret.val[1] = Sum(call'.arg.bufs)
                /\ call'.ret.val[2] = RecvFlags(MSG_TRUNC)
      ]_vars

\* a datagram larger than the one byte of buffer space was received as one
\* byte with the truncation flag set
C3_Witness ==
    /\ sock.ty = "SOCK_DGRAM"
    /\ call.op = "recv_vectored"
    /\ Sum(call.arg.bufs) = 1
    /\ call.native[1].err = "WSAEMSGSIZE"
    /\ call.ret = Ok(<<1, RecvFlags(MSG_TRUNC)>>)

\* min(len, i32::MAX)
ClampedLen(len) == IF Lt(Wide(C_INT_MAX), len) THEN C_INT_MAX ELSE Narrow(len)

\* C10: recv, peek, recv_from, peek_from, send and send_to each make one
\* native call, and the length they hand it is min(buf.len(), i32::MAX): never
\* negative, never wrapped, and buf.len() itself when that is at most
\* i32::MAX.
C10_LengthClamped ==
    call.op \in PlainReceives \cup {"send", "send_to"} =>
        /\ Len(call.native) = 1
        /\ call.native[1].len = ClampedLen(call.arg.len)
        /\ call.native[1].len >= 0
        /\ call.native[1].len <= C_INT_MAX

\* a send of usize::MAX bytes handed the OS i32::MAX bytes
C10_Witness ==
    /\ call.op = "send"
    /\ call.arg.len = U64_MAX
    /\ call.native[1].len = C_INT_MAX
    /\ call.ret = Ok(C_INT_MAX)

---------------------------------------------------------------------------
(* Addresses.  An Ipv4Addr is its four octets, an Ipv6Addr its eight       *)
(* 16-bit segments.  IN_ADDR and in6_addr are unions over 4 and 16 bytes   *)
(* of memory, modelled as those bytes in address order.  A u32 is its four *)
(* base-256 digits, least significant first.                               *)

RECURSIVE Reverse(_)
Reverse(q) == IF q = <<>> THEN <<>> ELSE Reverse(Tail(q)) \o <<Head(q)>>

\* u32::from_ne_bytes and u32::to_ne_bytes on a host of the given byte order
from_ne_bytes(endian, bytes) == IF endian = "little" THEN bytes ELSE Reverse(bytes)
to_ne_bytes(endian, v) == IF endian = "little" THEN v ELSE Reverse(v)

\* *s_un.S_addr_mut() = v and *in_addr.S_un.S_addr(): a u32 written to and
\* read from the union's memory in the host's byte order
S_addr_mut(endian, v) == IF endian = "little" THEN v ELSE Reverse(v)
S_addr(endian, S_un) == IF endian = "little" THEN S_un ELSE Reverse(S_un)

\* Ipv4Addr::octets and Ipv4Addr::from([u8; 4])
octets(addr) == addr
Ipv4Addr_from(bytes) == bytes

to_in_addrFromBe(endian, addr) ==
    [S_un |-> S_addr_mut(endian, Reverse(octets(addr)))]

\* pub(crate) fn to_in_addr(addr: &Ipv4Addr) -> IN_ADDR
to_in_addr(endian, addr) ==
    [S_un |-> S_addr_mut(endian, from_ne_bytes(endian, octets(addr)))]

\* pub(crate) fn from_in_addr(in_addr: IN_ADDR) -> Ipv4Addr
from_in_addr(endian, in_addr) ==
    Ipv4Addr_from(to_ne_bytes(endian, S_addr(endian, in_addr.S_un)))

RECURSIVE octets6(_)
\* Ipv6Addr::octets: each segment as two bytes, high byte first
octets6(addr) ==
    IF addr = <<>> THEN <<>>
    ELSE <<Head(addr) \div 256, Head(addr) % 256>> \o octets6(Tail(addr))

RECURSIVE Ipv6Addr_from(_)
\* Ipv6Addr::from([u8; 16])
Ipv6Addr_from(bytes) ==
    IF bytes = <<>> THEN <<>>
    ELSE <<bytes[1] * 256 + bytes[2]>> \o Ipv6Addr_from(Tail(Tail(bytes)))

RECURSIVE to_in6_addrLowByteFirst(_)
to_in6_addrLowByteFirst(addr) ==
    [u |-> IF addr = <<>> THEN <<>>
           ELSE <<Head(addr) % 256, Head(addr) \div 256>>
                \o to_in6_addrLowByteFirst(Tail(addr)).u]

\* pub(crate) fn to_in6_addr(addr: &Ipv6Addr) -> in6_addr: writes the union's
\* Byte view
to_in6_addr(addr) == [u |-> octets6(addr)]

\* pub(crate) fn from_in6_addr(in6_addr: in6_addr) -> Ipv6Addr: reads the
\* union's Byte view
from_in6_addr(in6_addr) == Ipv6Addr_from(in6_addr.u)

OctetInputs == { 0, 1, 127, 255 }

Ipv4Inputs == { <<a, b, c, d>> : a, b, c, d \in OctetInputs }

SegmentInputs == { 1, 8192, 65280 }

Ipv6Inputs == [1..8 -> SegmentInputs]

---------------------------------------------------------------------------
(* The codec functions on their own: a value is drawn, then encoded, then  *)
(* the encoding decoded                                                    *)

Input(ty, val) == [op |-> "input", ty |-> ty, val |-> val]

InitCodec ==
    /\ host \in { [endian |-> e] : e \in {"little", "big"} }
    /\ proc = NoSocket
    /\ sock = [ty |-> "none"]
    /\ \/ \E d \in OptDurations : call = Input("Option<Duration>", d)
       \/ \E raw \in RawInputs : call = Input("DWORD", raw)
       \/ \E a \in Ipv4Inputs : call = Input("Ipv4Addr", a)
       \/ \E a \in Ipv6Inputs : call = Input("Ipv6Addr", a)

\* the step of applying a pure function to the value the last step left;
\* of is that last step
Applies(op, arg, ret) ==
    /\ call' = [op |-> op, arg |-> arg, ret |-> ret, of |-> call]
    /\ UNCHANGED <<host, sock, proc>>

Dur2ms ==
    /\ call.op = "input" /\ call.ty = "Option<Duration>"
    /\ Applies("dur2ms", call.val, dur2ms(call.val))

Ms2dur ==
    \/ /\ call.op = "input" /\ call.ty = "DWORD"
       /\ Applies("ms2dur", call.val, ms2dur(call.val))
    \/ /\ call.op = "dur2ms" /\ call.ret.ok
       /\ Applies("ms2dur", call.ret.val, ms2dur(call.ret.val))

ToInAddr ==
    /\ call.op = "input" /\ call.ty = "Ipv4Addr"
    /\ Applies("to_in_addr", call.val, to_in_addr(host.endian, call.val))

FromInAddr ==
    /\ call.op = "to_in_addr"
    /\ Applies("from_in_addr", call.ret, from_in_addr(host.endian, call.ret))

ToIn6Addr ==
    /\ call.op = "input" /\ call.ty = "Ipv6Addr"
    /\ Applies("to_in6_addr", call.val, to_in6_addr(call.val))

FromIn6Addr ==
    /\ call.op = "to_in6_addr"
    /\ Applies("from_in6_addr", call.ret, from_in6_addr(call.ret))

NextCodec ==
    \/ Dur2ms
    \/ Ms2dur
    \/ ToInAddr
    \/ FromInAddr
    \/ ToIn6Addr
    \/ FromIn6Addr

SpecCodec == InitCodec /\ [][NextCodec]_vars

\* C5: for every duration d > 0, dur2ms(Some(d)) succeeds and ms2dur of its
\* result is Some(d rounded up to the next whole millisecond, saturated at
\* u32::MAX milliseconds); dur2ms(None) is 0 and ms2dur(0) is None.
C5_TimeoutRoundTrip ==
    /\ (call.op = "dur2ms" /\ call.arg # None /\ call.arg # Some(ZeroDuration))
          => call.ret.ok
    /\ (call.op = "dur2ms" /\ call.arg = None) => call.ret = Ok(<<>>)
    /\ (call.op = "ms2dur" /\ call.arg = <<>>) => call.ret = None
    /\ (call.op = "ms2dur" /\ call.of.op = "dur2ms") =>
          call.ret = IF call.of.arg = None THEN None
                     ELSE Some(RoundUpMsSat(call.of.arg[1]))

\* a duration whose seconds * 1000 overflows 64 bits came back as the maximum
C5_Witness ==
    /\ call.op = "ms2dur"
    /\ call.of.op = "dur2ms"
    /\ call.of.arg = Some(Duration(U64_MAX, 999999999))
    /\ call.ret = Some(MaxTimeout)

\* C9: from_in_addr(to_in_addr(a)) = a for every IPv4 address a, and
\* from_in6_addr(to_in6_addr(b)) = b for every IPv6 address b, on a host of
\* either byte order.
C9_AddressRoundTrip ==
    /\ call.op = "from_in_addr" => call.ret = call.of.arg
    /\ call.op = "from_in6_addr" => call.ret = call.of.arg

\* 127.0.0.1 came back from its native form on a little-endian host
C9_Witness ==
    /\ host.endian = "little"
    /\ call.op = "from_in_addr"
    /\ call.of.ret = [S_un |-> <<127, 0, 0, 1>>]
    /\ call.ret = <<127, 0, 0, 1>>

---------------------------------------------------------------------------
(* init() and socket(): threads race into socket(), each through init()    *)
(* and then WSASocketW                                                     *)

\* the descriptors that are not open
FreeHandles(p) == { h \in Handles : p.handles[h] = 0 }

\* the least of a non-empty set of numbers
Least(S) == CHOOSE x \in S : \A y \in S : x <= y

\* a kernel socket object that no descriptor refers to
FreshObject(p) == Least({ o \in 1..MaxHandles : \A h \in Handles : p.handles[h] # o })

\* the outcome of a native call that makes a descriptor: "" for success
SocketOutcomes == { "", "WSAENOBUFS" }

\* WSASocketW(..): a descriptor for the object obj, or WSAEMFILE when the
\* descriptor table is full
os_WSASocketW(p, obj, oserr) ==
    IF oserr # "" THEN [ret |-> Err(oserr), proc |-> p]
    ELSE IF FreeHandles(p) = {} THEN [ret |-> Err("WSAEMFILE"), proc |-> p]
    ELSE LET h == Least(FreeHandles(p))
         IN  [ret |-> Ok(h), proc |-> [p EXCEPT !.handles[h] = obj]]

\* a call_once that lets a second caller through while the first is still
\* inside the closure
call_onceNoWait(p, t) ==
    IF p.INIT = "INCOMPLETE"
    THEN [enabled |-> TRUE, proc |-> [p EXCEPT !.INIT = "RUNNING", !.pc[t] = "closure"]]
    ELSE [enabled |-> TRUE, proc |-> [p EXCEPT !.pc[t] = "WSASocketW"]]

\* INIT.call_once(|| ..) as thread t enters it: the first caller runs the
\* closure, a caller that finds it running waits, a caller that finds it
\* complete returns at once
call_once(p, t) ==
    IF p.INIT = "COMPLETE"
    THEN [enabled |-> TRUE, proc |-> [p EXCEPT !.pc[t] = "WSASocketW"]]
    ELSE IF p.INIT = "INCOMPLETE"
    THEN [enabled |-> TRUE, proc |-> [p EXCEPT !.INIT = "RUNNING", !.pc[t] = "closure"]]
    ELSE [enabled |-> FALSE, proc |-> p]

\* the closure of init(): `let _ = net::UdpSocket::bind(..)` starts winsock,
\* its result is dropped, and call_once returns with the Once complete
init_closure(p, t) ==
    [p EXCEPT !.winsock = @ + 1, !.INIT = "COMPLETE", !.pc[t] = "WSASocketW"]

\* thread t calls socket(family, ty, protocol)
SocketEnter(t) ==
    /\ proc.pc[t] = "idle"
    /\ proc.calls[t] < MaxCalls
    /\ proc' = [proc EXCEPT !.pc[t] = "init", !.calls[t] = @ + 1]
    /\ UNCHANGED <<host, sock, call>>

\* thread t, in init(), reaches INIT.call_once
CallOnce(t) ==
    /\ proc.pc[t] = "init"
    /\ call_once(proc, t).enabled
    /\ proc' = call_once(proc, t).proc
    /\ UNCHANGED <<host, sock, call>>

\* thread t runs the closure to its end
InitClosure(t) ==
    /\ proc.pc[t] = "closure"
    /\ proc' = init_closure(proc, t)
    /\ UNCHANGED <<host, sock, call>>

\* thread t makes the WSASocketW call of socket() and returns its result
SocketReturn(t, oserr) ==
    /\ proc.pc[t] = "WSASocketW"
    /\ LET r == os_WSASocketW(proc, FreshObject(proc), oserr)
       IN  /\ proc' = [r.proc EXCEPT !.pc[t] = "idle"]
           /\ call' = [op |-> "socket", thread |-> t, ret |-> r.ret]
    /\ UNCHANGED <<host, sock>>

InitSocket ==
    /\ host = [endian |-> "little"]
    /\ sock = [ty |-> "none"]
    /\ call = NoCall
    /\ proc = NoSocket

NextSocket ==
    \/ \E t \in Threads : SocketEnter(t)
    \/ \E t \in Threads : CallOnce(t)
    \/ \E t \in Threads : InitClosure(t)
    \/ \E t \in Threads, e \in SocketOutcomes : SocketReturn(t, e)

SpecSocket == InitSocket /\ [][NextSocket]_vars

\* C11: the closure of init() runs at most once in the process, whatever
\* the number of socket() calls and threads, and every WSASocketW call of
\* socket() is made when the Once is complete and the closure has run.
C11_InitOnceBeforeSocket ==
    [][ /\ proc'.winsock <= 1
        /\ \A t \in Threads :
             (proc.pc[t] = "WSASocketW" /\ proc'.pc[t] = "idle")
               => (proc.INIT = "COMPLETE" /\ proc.winsock = 1)
      ]_vars

\* a socket() has returned a descriptor, another thread is at its
\* WSASocketW call, and a third is in init(), with the closure run once
C11_Witness ==
    /\ proc.winsock = 1
    /\ \E t, u \in Threads :
         /\ t # u
         /\ proc.pc[t] = "WSASocketW"
         /\ proc.pc[u] = "init"
    /\ call.op = "socket"
    /\ call.ret.ok

---------------------------------------------------------------------------
(* The generic option calls on their own: a boolean option is written as a *)
(* c_int, and read back into a slot of type T                              *)

\* self.setsockopt(opt, val, x as c_int)
Setsockopt(k, x, oserr) ==
    Does("setsockopt", [opt |-> k[1], val |-> k[2], payload |-> x],
         setsockopt(sock, k[1], k[2], x, oserr))

\* self.getsockopt::<T>(opt, val), with the outcome out of the native call
Getsockopt(k, T, out) ==
    /\ call' = [op |-> "getsockopt", arg |-> [opt |-> k[1], val |-> k[2], T |-> T],
                native |-> out, ret |-> getsockopt(sock, k[1], k[2], T, out)]
    /\ UNCHANGED <<host, sock, proc>>

NextGetsockopt ==
    \/ \E k \in BoolKeys, x \in {0, 1}, e \in OptOutcomes : Setsockopt(k, x, e)
    \/ \E k \in BoolKeys, T \in {"c_int", "c_char"} :
         \E out \in GetOutcomes(T) : Getsockopt(k, T, out)

SpecGetsockopt == InitOpt /\ [][NextGetsockopt]_vars

\* C13: a getsockopt::<T> whose native call succeeds returns Ok(the slot) if
\* the length the OS reports equals size_of::<T>() and panics on the
\* assertion otherwise, returning neither a value nor an Err; a getsockopt
\* whose native call fails returns Err with the OS error, whatever length
\* was reported.
C13_GetsockoptLength ==
    call.op = "getsockopt" =>
      LET out == call.native
          fits == out.len = size_of(call.arg.T)
      IN  /\ (out.err = "" /\ fits)
               => call.ret = Ok(sock.opts[<<call.arg.opt, call.arg.val>>])
          /\ (out.err = "" /\ ~fits)
               => (~call.ret.ok /\ DOMAIN call.ret = {"ok", "panic"})
          /\ out.err # "" => call.ret = Err(out.err)

\* a read into a c_int for which the OS reported one byte written has
\* panicked, on a socket where the option had been set
C13_Witness ==
    /\ call.op = "getsockopt"
    /\ call.arg.T = "c_int"
    /\ call.native = [err |-> "", len |-> 1]
    /\ "panic" \in DOMAIN call.ret
    /\ sock.opts[<<call.arg.opt, call.arg.val>>] = 1

---------------------------------------------------------------------------
(* Multicast membership *)

\* IP_MREQ { imr_multiaddr, imr_interface }
IP_MREQ(imr_multiaddr, imr_interface) ==
    [imr_multiaddr |-> imr_multiaddr, imr_interface |-> imr_interface]

\* IPV6_MREQ { ipv6mr_multiaddr, ipv6mr_interface }
IPV6_MREQ(ipv6mr_multiaddr, ipv6mr_interface) ==
    [ipv6mr_multiaddr |-> ipv6mr_multiaddr, ipv6mr_interface |-> ipv6mr_interface]

\* pub fn join_multicast_v4(&self, multiaddr: &Ipv4Addr, interface: &Ipv4Addr)
join_multicast_v4(s, endian, multiaddr, interface, oserr) ==
    LET mreq == IP_MREQ(to_in_addr(endian, multiaddr), to_in_addr(endian, interface))
    IN  setsockopt(s, "IPPROTO_IP", "IP_ADD_MEMBERSHIP", mreq, oserr)

\* pub fn leave_multicast_v4(&self, multiaddr: &Ipv4Addr, interface: &Ipv4Addr)
leave_multicast_v4(s, endian, multiaddr, interface, oserr) ==
    LET mreq == IP_MREQ(to_in_addr(endian, multiaddr), to_in_addr(endian, interface))
    IN  setsockopt(s, "IPPROTO_IP", "IP_DROP_MEMBERSHIP", mreq, oserr)

\* pub fn join_multicast_v6(&self, multiaddr: &Ipv6Addr, interface: u32)
join_multicast_v6(s, multiaddr, interface, oserr) ==
    LET mreq == IPV6_MREQ(to_in6_addr(multiaddr), interface)
    IN  setsockopt(s, "IPPROTO_IPV6", "IPV6_ADD_MEMBERSHIP", mreq, oserr)

\* pub fn leave_multicast_v6(&self, multiaddr: &Ipv6Addr, interface: u32):
\* the level passed is IPPROTO_IP
leave_multicast_v6(s, multiaddr, interface, oserr) ==
    LET mreq == IPV6_MREQ(to_in6_addr(multiaddr), interface)
    IN  setsockopt(s, "IPPROTO_IP", "IPV6_DROP_MEMBERSHIP", mreq, oserr)

\* 224.0.0.1 and 239.1.1.1, joined on the interface 0.0.0.0 or 127.0.0.1
Groups4 == { <<224, 0, 0, 1>>, <<239, 1, 1, 1>> }
Interfaces4 == { <<0, 0, 0, 0>>, <<127, 0, 0, 1>> }

\* ff02::1 and ff05::2, joined on the interface of index 0 or 2
Groups6 == { <<65282, 0, 0, 0, 0, 0, 0, 1>>, <<65285, 0, 0, 0, 0, 0, 0, 2>> }
Interfaces6 == { <<>>, Wide(2) }

NextMulticast ==
    \/ \E g \in Groups4, i \in Interfaces4, e \in OptOutcomes :
         Does("join_multicast_v4", <<g, i>>,
              join_multicast_v4(sock, host.endian, g, i, e))
    \/ \E g \in Groups4, i \in Interfaces4, e \in OptOutcomes :
         Does("leave_multicast_v4", <<g, i>>,
              leave_multicast_v4(sock, host.endian, g, i, e))
    \/ \E g \in Groups6, i \in Interfaces6, e \in OptOutcomes :
         Does("join_multicast_v6", <<g, i>>, join_multicast_v6(sock, g, i, e))
    \/ \E g \in Groups6, i \in Interfaces6, e \in OptOutcomes :
         Does("leave_multicast_v6", <<g, i>>, leave_multicast_v6(sock, g, i, e))

SpecMulticast == InitOpt /\ [][NextMulticast]_vars

\* C14: a successful leave_multicast_v6 that follows a successful
\* join_multicast_v6 of the same group and interface index passes the same
\* membership structure at the same level, IPPROTO_IPV6, with
\* IPV6_DROP_MEMBERSHIP where the join passed IPV6_ADD_MEMBERSHIP, and leaves
\* the socket without the membership the join added.
C14_LeaveV6UndoesJoinV6 ==
    [][ ( /\ call.op = "join_multicast_v6" /\ call.ret.ok
          /\ call'.op = "leave_multicast_v6" /\ call'.ret.ok
          /\ call'.arg = call.arg )
        => /\ call'.native[1].payload = call.native[1].payload
           /\ call.native[1].val = "IPV6_ADD_MEMBERSHIP"
           /\ call'.native[1].val = "IPV6_DROP_MEMBERSHIP"
           /\ call'.native[1].opt = call.native[1].opt
           /\ call'.native[1].opt = "IPPROTO_IPV6"
           /\ \A m \in sock'.mcast : m.mreq # call.native[1].payload
      ]_vars

\* The IPv4 pair, for comparison: a successful leave_multicast_v4 that
\* follows a successful join_multicast_v4 with the same arguments passes the
\* same structure at the same level and leaves the socket without the
\* membership.
LeaveV4UndoesJoinV4 ==
    [][ ( /\ call.op = "join_multicast_v4" /\ call.ret.ok
          /\ call'.op = "leave_multicast_v4" /\ call'.ret.ok
          /\ call'.arg = call.arg )
        => /\ call'.native[1].payload = call.native[1].payload
           /\ call'.native[1].opt = call.native[1].opt
           /\ \A m \in sock'.mcast : m.mreq # call.native[1].payload
      ]_vars

---------------------------------------------------------------------------
(* try_clone() and close(): descriptors of one kernel socket object.  The  *)
(* object lives as long as a descriptor refers to it                       *)

\* WSADuplicateSocketW(socket, GetCurrentProcessId(), info): the object the
\* info it fills in designates
os_WSADuplicateSocketW(p, socket, oserr) ==
    IF oserr # "" THEN Err(oserr)
    ELSE IF p.handles[socket] = 0 THEN Err("WSAENOTSOCK")
    ELSE Ok(p.handles[socket])

\* sock::closesocket(socket): the descriptor table after it; an error is
\* for a descriptor that is not open and changes nothing
os_closesocket(p, socket) == [p EXCEPT !.handles[socket] = 0]

\* pub(crate) fn try_clone(socket: SysSocket) -> io::Result<SysSocket>
try_clone(p, socket, duperr, sockerr) ==
    LET info == os_WSADuplicateSocketW(p, socket, duperr)
    IN  IF ~info.ok THEN [ret |-> info, proc |-> p]
        ELSE os_WSASocketW(p, info.val, sockerr)

\* a close that takes every descriptor of the object with it
closeAllOfObject(p, socket) ==
    [p EXCEPT !.handles = [h \in Handles |-> IF @[h] = p.handles[socket] THEN 0 ELSE @[h]]]

\* pub(crate) fn close(socket: SysSocket): `let _ = sock::closesocket(socket)`
close(p, socket) == os_closesocket(p, socket)

\* send on the Socket that owns descriptor h: the OS finds no socket behind a
\* descriptor that is not open
send_on(p, s, h, len, fault) ==
    send(s, len, 0, IF p.handles[h] = 0 THEN "WSAENOTSOCK" ELSE fault)

\* shutdown on the Socket that owns descriptor h
shutdown_on(p, s, h, how, fault) ==
    shutdown(s, how, IF p.handles[h] = 0 THEN "WSAENOTSOCK" ELSE fault)

NextClone ==
    \/ \E h \in Handles, e1 \in SocketOutcomes, e2 \in SocketOutcomes :
         LET r == try_clone(proc, h, e1, e2)
         IN  /\ proc' = r.proc
             /\ call' = [op |-> "try_clone", arg |-> h, ret |-> r.ret]
             /\ UNCHANGED <<host, sock>>
    \/ \E h \in Handles :
         /\ proc.handles[h] # 0
         /\ proc' = close(proc, h)
         /\ call' = [op |-> "close", arg |-> h]
         /\ UNCHANGED <<host, sock>>
    \/ \E h \in Handles, len \in BufLens, f \in Faults :
         Does("send", [h |-> h, len |-> len], send_on(proc, sock, h, len, f))
    \/ \E h \in Handles, how \in {"Read", "Write", "Both"}, f \in Faults :
         Does("shutdown", [h |-> h, how |-> how], shutdown_on(proc, sock, h, how, f))

SpecClone == InitOpt /\ [][NextClone]_vars

\* C12: a successful try_clone(h) returns a descriptor other than h that was
\* not open before and now refers to the object h refers to, with every
\* other descriptor as it was; and closing a descriptor leaves every other
\* open descriptor open, on the same object, with the object's state and
\* so the outcome of any send through it as they were.
C12_CloneIndependent ==
    [][ /\ (call'.op = "try_clone" /\ call'.ret.ok)
          => LET h == call'.arg
                 d == call'.ret.val
             IN  /\ d # h
                 /\ proc.handles[d] = 0
                 /\ proc.handles[h] # 0
                 /\ proc'.handles[d] = proc.handles[h]
                 /\ \A g \in Handles \ {d} : proc'.handles[g] = proc.handles[g]
        /\ (call'.op = "close")
          => /\ proc'.handles[call'.arg] = 0
             /\ sock' = sock
             /\ \A g \in Handles \ {call'.arg} :
                  /\ proc'.handles[g] = proc.handles[g]
                  /\ \A len \in BufLens, f \in Faults :
                       send_on(proc', sock', g, len, f) = send_on(proc, sock, g, len, f)
        /\ (call'.op = "send" /\ proc.handles[call'.arg.h] # 0)
          => call'.ret # Err("WSAENOTSOCK")
      ]_vars

\* of two duplicates of descriptor 1 the first, descriptor 2, has been
\* closed, and a send on the original has gone through
C12_Witness ==
    /\ call.op = "send"
    /\ call.arg.h = 1
    /\ call.ret.ok
    /\ proc.handles[1] = 1
    /\ proc.handles[2] = 0
    /\ proc.handles[3] = 1

---------------------------------------------------------------------------
(* The receive paths: failures and the truncation flag *)

\* C15: every receive operation makes exactly one native call, and when that
\* call fails with a code other than WSAESHUTDOWN and, for the vectored
\* operations, other than WSAEMSGSIZE, the operation returns Err with that
\* code.
C15_ReceiveFailuresPropagate ==
    call.op \in (PlainReceives \cup VectoredReceives) =>
        /\ Len(call.native) = 1
        /\ LET e == call.native[1].err
           IN  ( /\ e \notin {"", "WSAESHUTDOWN"}
                 /\ ~(call.op \in VectoredReceives /\ e = "WSAEMSGSIZE") )
               => call.ret = Err(e)

\* a recv_from of a datagram too large for its buffer came back as the
\* error WSAEMSGSIZE
C15_Witness ==
    /\ call.op = "recv_from"
    /\ sock.ty = "SOCK_DGRAM"
    /\ call.native[1].err = "WSAEMSGSIZE"
    /\ call.ret = Err("WSAEMSGSIZE")

\* C16: a vectored receive returns the truncation flag set only if its
\* native call failed with WSAEMSGSIZE: when the native call succeeds, and
\* when the operation turns WSAESHUTDOWN into a success, the flag is clear.
C16_TruncationOnlyOnMsgSize ==
    (call.op \in VectoredReceives /\ call.ret.ok) =>
        /\ call.ret.val[2] \in { RecvFlags(0), RecvFlags(MSG_TRUNC) }
        /\ call.ret.val[2] = RecvFlags(MSG_TRUNC) => call.native[1].err = "WSAEMSGSIZE"
        /\ call.native[1].err \in {"", "WSAESHUTDOWN"} => call.ret.val[2] = RecvFlags(0)

\* a recv_vectored on a socket shut down for reading, with a datagram
\* larger than its buffers queued, returned 0 bytes and the flag clear
C16_Witness ==
    /\ call.op = "recv_vectored"
    /\ sock.ty = "SOCK_DGRAM"
    /\ sock.rdShut
    /\ sock.rxq # <<>>
    /\ Head(sock.rxq) > Sum(call.arg.bufs)
    /\ call.native[1].err = "WSAESHUTDOWN"
    /\ call.ret = Ok(<<0, RecvFlags(0)>>)

---------------------------------------------------------------------------
(* The keepalive structure written and read *)

\* C17: a set_keepalive(Some(d)) that reaches the native call passes a
\* structure with onoff = 1 and keepalivetime = keepaliveinterval = the
\* milliseconds dur2ms gives for d, and a set_keepalive(None) one with
\* onoff = 0; a keepalive() whose native call succeeds returns None when the
\* structure the OS reports has onoff = 0 or keepaliveinterval = 0, and
\* otherwise Some of the Duration that is exactly keepaliveinterval
\* milliseconds.
C17_KeepaliveStructure ==
    /\ (call.op = "set_keepalive" /\ call.native # <<>>) =>
         LET ka == call.native[1].ka
         IN  IF call.arg = None
             THEN ka.onoff = 0
             ELSE /\ ka.onoff = 1
                  /\ Ok(ka.keepalivetime) = dur2ms(call.arg)
                  /\ Ok(ka.keepaliveinterval) = dur2ms(call.arg)
    /\ (call.op = "keepalive" /\ call.ret.ok) =>
         IF sock.ka.onoff = 0 \/ sock.ka.keepaliveinterval = <<>>
         THEN call.ret.val = None
         ELSE /\ call.ret.val # None
              /\ call.ret.val[1].nanos % NANOS_PER_MILLI = 0
              /\ MulAdd(call.ret.val[1].secs, 1000, call.ret.val[1].nanos \div NANOS_PER_MILLI)
                   = sock.ka.keepaliveinterval

\* keepalive() returned None from a structure with keepalive on and an
\* interval of zero
C17_Witness ==
    /\ call.op = "keepalive"
    /\ sock.ka.onoff = 1
    /\ sock.ka.keepaliveinterval = <<>>
    /\ call.ret = Ok(None)

---------------------------------------------------------------------------
(* The bytes of the native addresses *)

\* C18: on a host of either byte order, the four bytes of the IN_ADDR that
\* to_in_addr gives for the address a.b.c.d are a, b, c, d in memory order,
\* and the sixteen bytes of the in6_addr that to_in6_addr gives are the high
\* and then the low byte of each segment in turn; from_in_addr and
\* from_in6_addr of a native value give the address whose octets are the
\* value's bytes in memory order.
C18_NetworkByteOrder ==
    /\ call.op = "to_in_addr" =>
         /\ Len(call.ret.S_un) = 4
         /\ \A i \in 1..4 : call.ret.S_un[i] = call.arg[i]
    /\ call.op = "from_in_addr" =>
         \A i \in 1..4 : call.ret[i] = call.arg.S_un[i]
    /\ call.op = "to_in6_addr" =>
         /\ Len(call.ret.u) = 16
         /\ \A i \in 1..8 :
              /\ call.ret.u[2 * i - 1] = call.arg[i] \div 256
              /\ call.ret.u[2 * i] = call.arg[i] % 256
    /\ call.op = "from_in6_addr" =>
         /\ Len(call.ret) = 8
         /\ \A i \in 1..8 :
              call.ret[i] = call.arg.u[2 * i - 1] * 256 + call.arg.u[2 * i]

\* on a big-endian host 1.0.127.255 was encoded as the bytes 1, 0, 127, 255
C18_Witness ==
    /\ host.endian = "big"
    /\ call.op = "to_in_addr"
    /\ call.arg = <<1, 0, 127, 255>>
    /\ call.ret.S_un = <<1, 0, 127, 255>>

===========================================================================
